---- MODULE Spec2Model ----
(***************************************************************************)
(* Model of frontend/src/lib/validation.ts: validatePhysics, the           *)
(* pattern-based feasibility check applied to an OpenSCAD description.     *)
(*                                                                         *)
(* Texts are sequences of one-character strings.  Lengths (wall thickness) *)
(* are integers counting tenths of a length unit: 1.0 is 10, 1.5 is 15.    *)
(* Angles are whole degrees.                                               *)
(***************************************************************************)
EXTENDS Integers, Sequences, FiniteSets, TLC

VARIABLES log, lastIndex

vars == <<log, lastIndex>>

(***************************************************************************)
(* Bounds of the model.                                                    *)
(***************************************************************************)
\* Number of validatePhysics calls in one run.
MaxCalls == 2

\* Largest slab thickness described, in half units (6 is 3.0).
MaxHalf == 6

\* The two equal sides of the described slab, cube([SlabSide, SlabSide, t]).
SlabSide == 10

(***************************************************************************)
(* Characters and number formatting.                                       *)
(***************************************************************************)
DigitSeq == <<"0", "1", "2", "3", "4", "5", "6", "7", "8", "9">>

\* \d
DigitClass == {DigitSeq[i] : i \in 1..10}

\* \s (the white space the descriptions use)
SpaceClass == {" ", "\t", "\n"}

\* Every character an input may hold; what "." of a pattern ranges over.
AnyChar == DigitClass \cup {" ", "(", ")", "[", "]", ",", ".", ";", "=", "*",
                            "a", "b", "c", "e", "h", "o", "p", "r", "s", "t", "u"}

RECURSIVE NatText(_)
\* Decimal digits of a natural number, most significant first.
NatText(n) ==
  IF n < 10 THEN <<DigitSeq[n + 1]>>
  ELSE NatText(n \div 10) \o <<DigitSeq[(n % 10) + 1]>>

\* A length of `tenths` tenths written with one decimal place: 15 is "1.5".
DecimalText(tenths) == NatText(tenths \div 10) \o <<".">> \o NatText(tenths % 10)

\* n spaces.
Spaces(n) == [i \in 1..n |-> " "]

(***************************************************************************)
(* Regular expressions: a pattern is a sequence of atoms, each a character *)
(* class with a quantifier ("1" exactly one, "*" zero or more, "+" one or  *)
(* more; quantifiers are greedy and backtrack).                            *)
(***************************************************************************)
One(cls) == [cls |-> cls, q |-> "1"]
Star(cls) == [cls |-> cls, q |-> "*"]
Plus(cls) == [cls |-> cls, q |-> "+"]

\* The literal text t as a pattern.
Lit(t) == [i \in 1..Len(t) |-> One({t[i]})]

RECURSIVE RunLen(_, _, _)
\* Number of consecutive characters of s from position j that are in cls.
RunLen(cls, s, j) ==
  IF j <= Len(s) /\ s[j] \in cls THEN 1 + RunLen(cls, s, j + 1) ELSE 0

RECURSIVE MatchEnd(_, _, _, _)
RECURSIVE TryRun(_, _, _, _, _, _)
\* Atom i of re matching k characters at j (k counted down to min), then the rest.
TryRun(re, i, s, j, k, min) ==
  IF k < min THEN 0
  ELSE LET e == MatchEnd(re, i + 1, s, j + k)
       IN IF e # 0 THEN e ELSE TryRun(re, i, s, j, k - 1, min)

\* Atoms i.. of re matched against s from position j: the position after the
\* match, or 0 when there is none.
MatchEnd(re, i, s, j) ==
  IF i > Len(re) THEN j
  ELSE LET a == re[i]
       IN CASE a.q = "1" ->
                 IF j <= Len(s) /\ s[j] \in a.cls
                   THEN MatchEnd(re, i + 1, s, j + 1) ELSE 0
            [] a.q = "*" -> TryRun(re, i, s, j, RunLen(a.cls, s, j), 0)
            [] a.q = "+" -> TryRun(re, i, s, j, RunLen(a.cls, s, j), 1)

RECURSIVE Search(_, _, _)
\* Leftmost match of re in s starting at position p or later: the position
\* after it, or 0.
Search(re, s, p) ==
  IF p > Len(s) + 1 THEN 0
  ELSE LET e == MatchEnd(re, 1, s, p)
       IN IF e # 0 THEN e ELSE Search(re, s, p + 1)

\* RegExp.prototype.test on a RegExp object whose lastIndex slot holds li:
\* whether s matches, and the slot afterwards.  Without the global flag the
\* search starts at the beginning and the slot is left alone.
RegExpTest(re, global, li, s) ==
  LET from == IF global THEN li ELSE 0
      e == IF from > Len(s) THEN 0 ELSE Search(re, s, from + 1)
  IN [matched |-> e # 0,
      lastIndex |-> IF ~global THEN li ELSE IF e # 0 THEN e - 1 ELSE 0]

(***************************************************************************)
(* validatePhysics.                                                        *)
(***************************************************************************)
\* The thin-wall pattern cut short after the decimal point's first character:
\* /cube\(\[\d+,\s*\d+,\s*[01]\../
ThinWallsPatternOpen ==
  Lit(<<"c", "u", "b", "e", "(", "[">>)
    \o <<Plus(DigitClass), One({","}), Star(SpaceClass),
         Plus(DigitClass), One({","}), Star(SpaceClass),
         One({"0", "1"}), One({"."}), One(AnyChar)>>

\* /cube\(\[\d+,\s*\d+,\s*[01]\.\d+\]/
ThinWallsPattern ==
  Lit(<<"c", "u", "b", "e", "(", "[">>)
    \o <<Plus(DigitClass), One({","}), Star(SpaceClass),
         Plus(DigitClass), One({","}), Star(SpaceClass),
         One({"0", "1"}), One({"."}), Plus(DigitClass), One({"]"})>>

\* /rotate\(\[90,\s*0,\s*0\]/
ComplexOverhangsPattern ==
  Lit(<<"r", "o", "t", "a", "t", "e", "(", "[", "9", "0", ",">>)
    \o <<Star(SpaceClass), One({"0"}), One({","}), Star(SpaceClass),
         One({"0"}), One({"]"})>>

\* A pattern literal shared between calls and carrying the global flag:
\* test() resumes from where the previous call's match ended.
hasThinWallsShared(openSCADCode, li) ==
  RegExpTest(ThinWallsPattern, TRUE, li, openSCADCode)

\* hasThinWalls: the literal is evaluated by each call, giving a fresh RegExp
\* object (lastIndex 0) without flags; li is the slot the previous evaluation
\* left, which the fresh object does not see.
hasThinWalls(openSCADCode, li) ==
  RegExpTest(ThinWallsPattern, FALSE, 0, openSCADCode)

\* hasComplexOverhangs, likewise.
hasComplexOverhangs(openSCADCode, li) ==
  RegExpTest(ComplexOverhangsPattern, FALSE, 0, openSCADCode)

\* Threshold of wallThickness.ok, in tenths (1.5).
MinWallThickness == 15

\* Threshold of overhangAngle.ok, in degrees.
MaxOverhangAngle == 45

\* const wallThickness = hasThinWalls ? 1.0 : 2.0, in tenths.
wallThickness(thin) == IF thin THEN 10 ELSE 20

\* const maxOverhang = hasComplexOverhangs ? 90 : 30.
maxOverhang(overhangs) == IF overhangs THEN 90 ELSE 30

\* ok: wallThickness >= 1.0 (the threshold set to the thin value).
WallThicknessOkLoose(w) == w >= 10

\* ok: wallThickness >= 1.5
WallThicknessOk(w) == w >= MinWallThickness

\* ok: maxOverhang <= 90 (the threshold set to the steep value).
OverhangOkLoose(m) == m <= 90

\* ok: maxOverhang <= 45
OverhangOk(m) == m <= MaxOverhangAngle

\* stable derived from the other two checks instead of the constant.
centerOfGravityDerived(thin, overhangs) ==
  [x |-> 0, y |-> 0,
   stable |-> WallThicknessOk(wallThickness(thin)) /\ OverhangOk(maxOverhang(overhangs))]

\* centerOfGravity: {x: 0, y: 0, stable: true}; the cues are not read.
centerOfGravity(thin, overhangs) == [x |-> 0, y |-> 0, stable |-> TRUE]

\* The wall section reading the rotation cue as well.
ValidationResultCoupled(thin, overhangs) ==
  [centerOfGravity |-> centerOfGravity(thin, overhangs),
   wallThickness |-> [min |-> wallThickness(thin \/ overhangs),
                      ok |-> WallThicknessOk(wallThickness(thin \/ overhangs))],
   overhangAngle |-> [max |-> maxOverhang(overhangs),
                      ok |-> OverhangOk(maxOverhang(overhangs))]]

\* The returned ValidationResult, given the two cues.
ValidationResult(thin, overhangs) ==
  [centerOfGravity |-> centerOfGravity(thin, overhangs),
   wallThickness |-> [min |-> wallThickness(thin),
                      ok |-> WallThicknessOk(wallThickness(thin))],
   overhangAngle |-> [max |-> maxOverhang(overhangs),
                      ok |-> OverhangOk(maxOverhang(overhangs))]]

(***************************************************************************)
(* The descriptions validatePhysics is called on.  A description is a      *)
(* solid (what is described: shape, slab thickness, rotation) together     *)
(* with a way of writing it down.                                          *)
(*   rot    "none"   no rotation                                           *)
(*          "tight"  rotate([90,0,0])                                      *)
(*          "spaced" rotate([90, 0, 0])                                    *)
(*          "named"  rotate(a=[90,0,0])                                    *)
(*   shape  "none" (the empty description), "sphere", "cube"               *)
(*   tenths slab thickness t of cube([SlabSide, SlabSide, t])              *)
(*   gap    spaces between "cube(" and "["                                 *)
(*   num    how t is written: "decimal" 1.5, "integer" 2,                  *)
(*          "product" 1.5*2 (half of t, times two)                         *)
(***************************************************************************)
Desc(rot, shape, tenths, gap, num) ==
  [rot |-> rot, shape |-> shape, tenths |-> tenths, gap |-> gap, num |-> num]

\* Slab thicknesses in tenths: 0.5, 1.0, ... up to MaxHalf half units.
Thicknesses == {5 * h : h \in 1..MaxHalf}

\* Unrotated slabs of every thickness in every writing.
Slabs ==
  {Desc("none", "cube", t, g, "decimal") : t \in Thicknesses, g \in 0..1}
  \cup {Desc("none", "cube", t, g, n) :
          t \in {u \in Thicknesses : u % 10 = 0}, g \in 0..1,
          n \in {"integer", "product"}}

\* A sphere or a thin or thick slab, under each writing of the rotation.
Rotated ==
  {Desc(r, "cube", t, 0, "decimal") :
     r \in {"tight", "spaced", "named"}, t \in {10, 20}}
  \cup {Desc(r, "sphere", 0, 0, "decimal") : r \in {"tight", "spaced", "named"}}

Inputs ==
  Slabs \cup Rotated
    \cup {Desc("none", "none", 0, 0, "decimal"), Desc("none", "sphere", 0, 0, "decimal")}

RotText(rot) ==
  CASE rot = "none" -> <<>>
    [] rot = "tight" ->
         <<"r", "o", "t", "a", "t", "e", "(", "[", "9", "0", ",", "0", ",", "0", "]", ")", " ">>
    [] rot = "spaced" ->
         <<"r", "o", "t", "a", "t", "e", "(", "[", "9", "0", ",", " ", "0", ",", " ", "0", "]", ")", " ">>
    [] rot = "named" ->
         <<"r", "o", "t", "a", "t", "e", "(", "a", "=", "[", "9", "0", ",", "0", ",", "0", "]", ")", " ">>

NumText(tenths, num) ==
  CASE num = "decimal" -> DecimalText(tenths)
    [] num = "integer" -> NatText(tenths \div 10)
    [] num = "product" -> DecimalText(tenths \div 2) \o <<"*", "2">>

ShapeText(d) ==
  CASE d.shape = "none" -> <<>>
    [] d.shape = "sphere" -> <<"s", "p", "h", "e", "r", "e", "(", "5", ")", ";">>
    [] d.shape = "cube" ->
         <<"c", "u", "b", "e", "(">> \o Spaces(d.gap) \o <<"[">>
           \o NatText(SlabSide) \o <<",">> \o NatText(SlabSide) \o <<",">>
           \o NumText(d.tenths, d.num) \o <<"]", ")", ";">>

\* The openSCADCode string of a description.
Text(d) == RotText(d.rot) \o ShapeText(d)

(***************************************************************************)
(* The state machine: a caller making up to MaxCalls calls.  log records   *)
(* each call: the description, its text (the argument), the two cues the   *)
(* call computed and the report it returned.  lastIndex is the lastIndex   *)
(* slot of the two RegExp objects as the latest call left them.            *)
(***************************************************************************)
Init ==
  /\ log = <<>>
  /\ lastIndex = [thin |-> 0, overhangs |-> 0]

Call(d) ==
  /\ Len(log) < MaxCalls
  /\ LET openSCADCode == Text(d)
         thin == hasThinWalls(openSCADCode, lastIndex.thin)
         overhangs == hasComplexOverhangs(openSCADCode, lastIndex.overhangs)
     IN /\ log' = Append(log, [input |-> d, code |-> openSCADCode,
                               hasThinWalls |-> thin.matched,
                               hasComplexOverhangs |-> overhangs.matched,
                               report |-> ValidationResult(thin.matched, overhangs.matched)])
        /\ lastIndex' = [thin |-> thin.lastIndex, overhangs |-> overhangs.lastIndex]

Next == \E d \in Inputs : Call(d)

Spec == Init /\ [][Next]_vars

(***************************************************************************)
(* Vocabulary of the properties.                                           *)
(***************************************************************************)
Calls == 1..Len(log)

\* The solid a description describes, whatever way it is written.
Solid(d) == [shape |-> d.shape, tenths |-> d.tenths, turned |-> d.rot # "none"]

\* Points of the solid touching the build plane: none for the empty
\* description, one for a sphere, the four corners of a face for a slab.
GroundContactPoints(d) ==
  CASE d.shape = "none" -> 0
    [] d.shape = "sphere" -> 1
    [] d.shape = "cube" -> 4

\* Whether s contains a match of pattern re.
Contains(s, re) == \E p \in 1..(Len(s) + 1) : MatchEnd(re, 1, s, p) # 0

C2_EmptyInputNotStable ==
  \A i \in Calls : log[i].code = <<>> => ~log[i].report.centerOfGravity.stable

(***************************************************************************)
(* C3: a slab cube([a, b, t]) of thickness t, t written with one decimal   *)
(* place or as an integer, is reported with wallThickness.min = t and      *)
(* wallThickness.ok = (t >= 1.5).                                          *)
(***************************************************************************)
C3_UniformSlabThickness ==
  \A i \in Calls :
    LET d == log[i].input
    IN (d.shape = "cube" /\ d.num \in {"decimal", "integer"})
         => /\ log[i].report.wallThickness.min = d.tenths
            /\ log[i].report.wallThickness.ok = (d.tenths >= 15)

(***************************************************************************)
(* C4: in every report wallThickness.ok holds exactly when the reported    *)
(* wallThickness.min is at least 1.5 length units.                         *)
(***************************************************************************)
C4_WallOkIffMinAtLeastThreshold ==
  \A i \in Calls :
    log[i].report.wallThickness.ok <=> log[i].report.wallThickness.min >= 15

\* One call reported a wall below the threshold and another one above it.
C4_Witness ==
  \E i, j \in Calls :
    /\ log[i].report.wallThickness.min < 15
    /\ log[j].report.wallThickness.min >= 15

(***************************************************************************)
(* C5: in every report overhangAngle.ok holds exactly when the reported    *)
(* overhangAngle.max is at most 45 degrees.                                *)
(***************************************************************************)
C5_OverhangOkIffMaxAtMostThreshold ==
  \A i \in Calls :
    log[i].report.overhangAngle.ok <=> log[i].report.overhangAngle.max <= 45

\* One call reported an overhang above the threshold and another one below it.
C5_Witness ==
  \E i, j \in Calls :
    /\ log[i].report.overhangAngle.max > 45
    /\ log[j].report.overhangAngle.max <= 45

(***************************************************************************)
(* C6: a solid with fewer than 3 ground-contact points is not reported     *)
(* stable.                                                                 *)
(***************************************************************************)
C6_FewContactsNotStable ==
  \A i \in Calls :
    GroundContactPoints(log[i].input) < 3 => ~log[i].report.centerOfGravity.stable

(***************************************************************************)
(* C7: two descriptions of the same solid that differ only in how they are *)
(* written get identical reports.                                          *)
(***************************************************************************)
C7_GeometryAlone ==
  \A i, j \in Calls :
    Solid(log[i].input) = Solid(log[j].input) => log[i].report = log[j].report

(***************************************************************************)
(* C8: the wallThickness section depends on the thin-wall cue alone, the   *)
(* overhangAngle section on the rotation cue alone, and the                *)
(* centerOfGravity section on neither.                                     *)
(***************************************************************************)
C8_ChecksIndependent ==
  \A i, j \in Calls :
    /\ log[i].hasThinWalls = log[j].hasThinWalls
         => log[i].report.wallThickness = log[j].report.wallThickness
    /\ log[i].hasComplexOverhangs = log[j].hasComplexOverhangs
         => log[i].report.overhangAngle = log[j].report.overhangAngle
    /\ log[i].report.centerOfGravity = log[j].report.centerOfGravity

\* Two calls that agree on the thin-wall cue and differ in the rotation cue.
C8_Witness ==
  \E i, j \in Calls :
    /\ ~log[i].hasThinWalls /\ ~log[j].hasThinWalls
    /\ log[i].hasComplexOverhangs /\ ~log[j].hasComplexOverhangs
    /\ log[i].report.overhangAngle # log[j].report.overhangAngle

(***************************************************************************)
(* C9: every call returns a report whose centerOfGravity section is        *)
(* {x: 0, y: 0, stable: true}.                                             *)
(***************************************************************************)
C9_CenterOfGravityConstant ==
  \A i \in Calls :
    log[i].report.centerOfGravity = [x |-> 0, y |-> 0, stable |-> TRUE]

\* A call whose wall and overhang checks both failed.
C9_Witness ==
  \E i \in Calls :
    /\ ~log[i].report.wallThickness.ok
    /\ ~log[i].report.overhangAngle.ok

(***************************************************************************)
(* C10: the report is fixed by two textual cues.                           *)
(***************************************************************************)
\* The thin-wall cue as the claim words it: cube([<digits>, <digits>,
\* <0 or 1>.<char>, the last being any one character.
C10_ClaimedThinCue ==
  Lit(<<"c", "u", "b", "e", "(", "[">>)
    \o <<Plus(DigitClass), One({","}), Star(SpaceClass),
         Plus(DigitClass), One({","}), Star(SpaceClass),
         One({"0", "1"}), One({"."}), One(AnyChar)>>

\* The thin-wall cue with the decimal digits and the closing bracket:
\* cube([<digits>, <digits>, <0 or 1>.<digits>]
C10_AmendedThinCue ==
  Lit(<<"c", "u", "b", "e", "(", "[">>)
    \o <<Plus(DigitClass), One({","}), Star(SpaceClass),
         Plus(DigitClass), One({","}), Star(SpaceClass),
         One({"0", "1"}), One({"."}), Plus(DigitClass), One({"]"})>>

\* rotate([90, 0, 0] with any white space, or none, after each comma.
C10_RotateCue ==
  Lit(<<"r", "o", "t", "a", "t", "e", "(", "[", "9", "0", ",">>)
    \o <<Star(SpaceClass), One({"0"}), One({","}), Star(SpaceClass),
         One({"0"}), One({"]"})>>

C10_FixedBy(thinCue) ==
  \A i \in Calls :
    /\ log[i].report.wallThickness =
         (IF Contains(log[i].code, thinCue)
            THEN [min |-> 10, ok |-> FALSE] ELSE [min |-> 20, ok |-> TRUE])
    /\ log[i].report.overhangAngle =
         (IF Contains(log[i].code, C10_RotateCue)
            THEN [max |-> 90, ok |-> FALSE] ELSE [max |-> 30, ok |-> TRUE])

\* C10 as claimed: wallThickness is {min: 1.0, ok: false} exactly when the
\* input contains cube([<digits>, <digits>, <0 or 1>.<char>, and
\* {min: 2.0, ok: true} otherwise; overhangAngle is {max: 90, ok: false}
\* exactly when it contains rotate([90, 0, 0], and {max: 30, ok: true}
\* otherwise.
C10_FourValuesAsClaimed == C10_FixedBy(C10_ClaimedThinCue)

\* C10 amended: the thin-wall cue is cube([<digits>, <digits>,
\* <0 or 1>.<digits>], the decimal digits immediately followed by the
\* closing bracket; the rest as claimed.
C10_FourValuesByCues == C10_FixedBy(C10_AmendedThinCue)

\* A third dimension written 1.5*2 was reported thick, and a description
\* holding both cues was reported {1.0, false} and {90, false}.
C10_Witness ==
  /\ \E i \in Calls :
       /\ log[i].input.num = "product"
       /\ log[i].input.tenths = 30
       /\ log[i].input.gap = 0
       /\ log[i].report.wallThickness = [min |-> 20, ok |-> TRUE]
  /\ \E j \in Calls :
       /\ log[j].input.rot = "spaced"
       /\ log[j].report.wallThickness = [min |-> 10, ok |-> FALSE]
       /\ log[j].report.overhangAngle = [max |-> 90, ok |-> FALSE]

====
